---- MODULE Spec2Model ----
(***************************************************************************)
(* Model of uptag's update search: find_update (src/lib.rs) driving a      *)
(* VersionExtractor over the lazy tag sequence of a TagFetcher, and of     *)
(* docker_compose::parse (src/docker_compose.rs) over a loaded document.   *)
(*                                                                         *)
(* A tag is a sequence of one-character strings.  The pattern module and   *)
(* the version module are not part of the sources at hand; extract_from,   *)
(* the ordering of versions, breaking_degree and update_type follow        *)
(* sections 3, 4.1, 4.2 and 4.3 of the specification.                      *)
(***************************************************************************)
EXTENDS Integers, Sequences, FiniteSets, TLC

\* Longest tag sequence a fetcher yields.
MaxSrc == 3

\* Number of find_update invocations over fetchers with the same content.
MaxRuns == 2

---------------------------------------------------------------------------
(* Values *)

None == [some |-> FALSE, val |-> <<>>]

Some(v) == [some |-> TRUE, val |-> v]

\* Option::or
or(a, b) == IF a.some THEN a ELSE b

Digits == {"0", "1", "2", "3", "4", "5", "6", "7", "8", "9"}

DigitValue(c) ==
    CASE c = "0" -> 0 [] c = "1" -> 1 [] c = "2" -> 2 [] c = "3" -> 3
      [] c = "4" -> 4 [] c = "5" -> 5 [] c = "6" -> 6 [] c = "7" -> 7
      [] c = "8" -> 8 [] c = "9" -> 9

Literal(text) == [kind |-> "Literal", text |-> text, isBreaking |-> FALSE]

Placeholder(isBreaking) ==
    [kind |-> "Placeholder", text |-> <<>>, isBreaking |-> isBreaking]

\* The compiled patterns "<!>.<>", "<>.<>" and "<>.<!>".
Patterns ==
    { [source |-> "<!>.<>",
       parts |-> << Placeholder(TRUE), Literal(<<".">>), Placeholder(FALSE) >>],
      [source |-> "<>.<>",
       parts |-> << Placeholder(FALSE), Literal(<<".">>), Placeholder(FALSE) >>],
      [source |-> "<>.<!>",
       parts |-> << Placeholder(FALSE), Literal(<<".">>), Placeholder(TRUE) >>] }

\* The tags of the image, as the registry may list them.
Tags ==
    { <<"1", ".", "1">>, <<"1", ".", "2">>, <<"1", ".", "3">>,
      <<"2", ".", "0">>, <<"3", ".", "0">>, <<"1", ".", "0">>,
      <<"1", ".", "0", "1">>, <<"x">> }

\* The tags an image may be pinned to.
CurrentTags == { <<"1", ".", "1">>, <<"x">> }

FetchErrors == {"e1", "e2"}

OkItem(tag) == [ok |-> TRUE, tag |-> tag, err |-> ""]

ErrItem(e) == [ok |-> FALSE, tag |-> <<>>, err |-> e]

Items == {OkItem(t) : t \in Tags} \cup {ErrItem(e) : e \in FetchErrors}

Sources == UNION {[1..n -> Items] : n \in 0..MaxSrc}

---------------------------------------------------------------------------
(* Pattern matching and versions *)

\* Number of decimal digits of tag from position i on (maximal run).
RECURSIVE DigitRun(_, _)
DigitRun(tag, i) ==
    IF i <= Len(tag) /\ tag[i] \in Digits THEN 1 + DigitRun(tag, i + 1) ELSE 0

\* A digit run parsed as an unsigned integer.
RECURSIVE ParseInt(_)
ParseInt(ds) ==
    IF ds = <<>> THEN 0
    ELSE 10 * ParseInt(SubSeq(ds, 1, Len(ds) - 1)) + DigitValue(ds[Len(ds)])

HasLiteralAt(tag, i, text) ==
    /\ i + Len(text) - 1 <= Len(tag)
    /\ SubSeq(tag, i, i + Len(text) - 1) = text

\* One left-to-right scan of tag from position i against the segments.
RECURSIVE Scan(_, _, _, _)
Scan(parts, tag, i, acc) ==
    IF parts = <<>>
    THEN IF i = Len(tag) + 1 THEN Some(acc) ELSE None
    ELSE LET seg == Head(parts) IN
         IF seg.kind = "Literal"
         THEN IF HasLiteralAt(tag, i, seg.text)
              THEN Scan(Tail(parts), tag, i + Len(seg.text), acc)
              ELSE None
         ELSE LET n == DigitRun(tag, i) IN
              IF n = 0 THEN None
              ELSE Scan(Tail(parts), tag, i + n,
                        Append(acc, ParseInt(SubSeq(tag, i, i + n - 1))))

extract_from(extractor, tag) == Scan(extractor.parts, tag, 1, <<>>)

\* Version ordering: lexicographic, leftmost component first.
RECURSIVE VersionLess(_, _)
VersionLess(a, b) ==
    IF a = <<>> THEN b # <<>>
    ELSE IF b = <<>> THEN FALSE
    ELSE IF Head(a) # Head(b) THEN Head(a) < Head(b)
    ELSE VersionLess(Tail(a), Tail(b))

PlaceholdersOf(parts) == SelectSeq(parts, LAMBDA s : s.kind = "Placeholder")

\* 0-based position of the last breaking placeholder among the placeholders.
breaking_degree(extractor) ==
    LET ps == PlaceholdersOf(extractor.parts)
        flagged == {i \in 1..Len(ps) : ps[i].isBreaking}
    IN  IF flagged = {} THEN None
        ELSE Some((CHOOSE i \in flagged : \A j \in flagged : j <= i) - 1)

update_type(candidate, current, degree) ==
    LET n == IF Len(candidate) < Len(current) THEN Len(candidate) ELSE Len(current)
        differing == {i \in 1..n : candidate[i] # current[i]}
    IN  IF differing = {} THEN "Compatible"
        ELSE LET first == (CHOOSE i \in differing : \A j \in differing : i <= j) - 1
             IN  IF degree.some /\ first <= degree.val
                 THEN "Breaking" ELSE "Compatible"

---------------------------------------------------------------------------
(* docker_compose: documents, the image pattern, results *)

\* Most services a compose document holds.
MaxServices == 2

ServiceNames == {"ubuntu", "alpine", "db"}

\* A field of a service mapping: absent, a string, or a nested mapping.
AbsentField == [kind |-> "absent", value |-> <<>>]

ScalarField(v) == [kind |-> "scalar", value |-> v]

MappingField == [kind |-> "mapping", value |-> <<>>]

\* marked_yaml's get_scalar on such a field
get_scalar(field) == IF field.kind = "scalar" THEN Some(field.value) ELSE None

\* The image definitions a document may give.
RawImages ==
    { <<"u", ":", "1", ".", "8">>,              \* ubuntu:18.04 in short
      <<"a", "/", "u", ":", "1">>,              \* user/image:tag
      <<"a", "/", "b", "/", "c">>,              \* invalid/image/definition
      <<"a", "/", "b", "/", "c", ":", "1">>,    \* a path before user/image:tag
      <<"u">>,                                  \* no tag
      <<"u", ":">> }                            \* empty tag

Paths == { <<".", "/", "a">> }

BuildFields == {AbsentField, MappingField} \cup {ScalarField(q) : q \in Paths}

ImageFields == {AbsentField, MappingField} \cup {ScalarField(r) : r \in RawImages}

\* A service's node: a mapping with its build and image fields, or another node.
ServiceNodes ==
    { [kind |-> "mapping", build |-> b, image |-> i] :
        b \in BuildFields, i \in ImageFields }
    \cup { [kind |-> k, build |-> AbsentField, image |-> AbsentField] :
        k \in {"scalar", "sequence"} }

\* The services mapping: distinct keys in document order.
ServiceLists ==
    UNION { { l \in [1..n -> [key : ServiceNames, node : ServiceNodes]] :
                \A i, j \in 1..n : i # j => l[i].key # l[j].key } :
            n \in 0..MaxServices }

\* What an input loads as: a load failure, or a root mapping without the
\* services key, with services as another node, or with a services mapping.
NoInput ==
    [loads |-> FALSE, has_services |-> FALSE, services_kind |-> "absent",
     services |-> <<>>]

Inputs ==
    { NoInput }
    \cup { [NoInput EXCEPT !.loads = TRUE] }
    \cup { [NoInput EXCEPT !.loads = TRUE, !.has_services = TRUE,
                           !.services_kind = k] : k \in {"scalar", "sequence"} }
    \cup { [NoInput EXCEPT !.loads = TRUE, !.has_services = TRUE,
                           !.services_kind = "mapping", !.services = l] :
           l \in ServiceLists }

\* [[:word:]]
WordChars == Digits \cup {"a", "b", "c", "u", "_"}

\* [[:word:]-]
NameChars == WordChars \cup {"-"}

\* [[:word:][:punct:]]
TagChars == WordChars \cup {"-", ".", "/", ":", "_", "@"}

\* Length of the longest run of characters of class from position i on.
RECURSIVE RunOf(_, _, _)
RunOf(str, i, class) ==
    IF i <= Len(str) /\ str[i] \in class THEN 1 + RunOf(str, i + 1, class) ELSE 0

CharAt(str, i, c) == i <= Len(str) /\ str[i] = c

\* The pattern IMAGE tried at position i: ((user)/)?(image):(tag), the
\* optional group first.
MatchAt(str, i) ==
    LET u == RunOf(str, i, NameChars)
        m == RunOf(str, i + u + 1, NameChars)
        withUser == /\ u >= 1
                    /\ CharAt(str, i + u, "/")
                    /\ m >= 1
                    /\ CharAt(str, i + u + 1 + m, ":")
                    /\ RunOf(str, i + u + m + 2, TagChars) >= 1
        noUser == /\ u >= 1
                  /\ CharAt(str, i + u, ":")
                  /\ RunOf(str, i + u + 1, TagChars) >= 1
    IN  IF withUser
        THEN Some([user |-> Some(SubSeq(str, i, i + u - 1)),
                   image |-> SubSeq(str, i + u + 1, i + u + m),
                   tag |-> SubSeq(str, i + u + m + 2,
                                  i + u + m + 1 + RunOf(str, i + u + m + 2, TagChars))])
        ELSE IF noUser
        THEN Some([user |-> None,
                   image |-> SubSeq(str, i, i + u - 1),
                   tag |-> SubSeq(str, i + u + 1,
                                  i + u + RunOf(str, i + u + 1, TagChars))])
        ELSE None

\* Regex::captures: the leftmost match anywhere in the string.
captures(str) ==
    LET starts == {i \in 1..Len(str) : MatchAt(str, i).some}
    IN  IF starts = {} THEN None
        ELSE MatchAt(str, CHOOSE i \in starts : \A j \in starts : i <= j)

ImageName(user, image) == [user |-> user, image |-> image]

NoContext == [kind |-> "none", path |-> <<>>, name |-> ImageName(None, <<>>),
              tag |-> <<>>]

\* BuildContext::Folder
Folder(path) == [NoContext EXCEPT !.kind = "Folder", !.path = path]

\* BuildContext::Image
Image(name, tag) == [NoContext EXCEPT !.kind = "Image", !.name = name, !.tag = tag]

NoParseResult ==
    [kind |-> "none", list |-> <<>>, field |-> "", raw |-> <<>>, service |-> ""]

Ok(list) == [NoParseResult EXCEPT !.kind = "Ok", !.list = list]

LoadError == [NoParseResult EXCEPT !.kind = "LoadError"]

MalformedDockerfile == [NoParseResult EXCEPT !.kind = "MalformedDockerfile"]

MissingField(f) == [NoParseResult EXCEPT !.kind = "MissingField", !.field = f]

InvalidImage(raw) == [NoParseResult EXCEPT !.kind = "InvalidImage", !.raw = raw]

UnsupportedBuildContext(service) ==
    [NoParseResult EXCEPT !.kind = "UnsupportedBuildContext", !.service = service]

\* service_entry looking at the image field before the build field.
service_entry_ImageFirst(key, node) ==
    IF node.kind # "mapping" THEN [ok |-> FALSE, entry |-> <<>>, err |-> MalformedDockerfile]
    ELSE IF get_scalar(node.image).some
    THEN LET raw_image == get_scalar(node.image).val
             caps == captures(raw_image)
         IN  IF ~caps.some
             THEN [ok |-> FALSE, entry |-> <<>>, err |-> InvalidImage(raw_image)]
             ELSE [ok |-> TRUE, err |-> NoParseResult,
                   entry |-> << key, Image(ImageName(caps.val.user, caps.val.image),
                                           caps.val.tag) >>]
    ELSE IF get_scalar(node.build).some
    THEN [ok |-> TRUE, err |-> NoParseResult,
          entry |-> << key, Folder(get_scalar(node.build).val) >>]
    ELSE [ok |-> FALSE, entry |-> <<>>, err |-> UnsupportedBuildContext(key)]

\* The closure of parse on one service: its entry, or the error.
service_entry(key, node) ==
    IF node.kind # "mapping" THEN [ok |-> FALSE, entry |-> <<>>, err |-> MalformedDockerfile]
    ELSE IF get_scalar(node.build).some
    THEN [ok |-> TRUE, err |-> NoParseResult,
          entry |-> << key, Folder(get_scalar(node.build).val) >>]
    ELSE IF get_scalar(node.image).some
    THEN LET raw_image == get_scalar(node.image).val
             caps == captures(raw_image)
         IN  IF ~caps.some
             THEN [ok |-> FALSE, entry |-> <<>>, err |-> InvalidImage(raw_image)]
             ELSE [ok |-> TRUE, err |-> NoParseResult,
                   entry |-> << key, Image(ImageName(caps.val.user, caps.val.image),
                                           caps.val.tag) >>]
    ELSE [ok |-> FALSE, entry |-> <<>>, err |-> UnsupportedBuildContext(key)]

---------------------------------------------------------------------------
(* find_update *)

VARIABLES
    extractor,          \* the compiled pattern of the check
    image_tag,          \* image.tag, the current tag
    source,             \* what fetcher.fetch(&image.name) yields, in order
    cursor,             \* items the iterator has handed out in this call
    pc,                 \* "entry", "loop" or "done"
    current_version,
    breaking_update,
    searched_amount,
    result,             \* what the call returned
    update_type_calls,  \* positions of the items update_type was invoked for
    run,                \* number of the invocation
    first_result        \* what the first invocation returned

find_vars == << extractor, image_tag, source, cursor, pc, current_version,
                breaking_update, searched_amount, result, update_type_calls,
                run, first_result >>

VARIABLES
    input,              \* docker_compose::parse: what the input loads as
    parse_pc,           \* "idle", "entry", "services" or "done"
    collected,          \* the entries collected so far
    parse_result        \* what parse returned

compose_vars == << input, parse_pc, collected, parse_result >>

vars == << find_vars, compose_vars >>

NoResult ==
    [kind |-> "none", compatible |-> None, breaking |-> None, err |-> "",
     searched_amount |-> 0, current_tag |-> <<>>, pattern |-> ""]

Update(compatible, breaking) ==
    [NoResult EXCEPT !.kind = "Update", !.compatible = compatible,
                     !.breaking = breaking]

FetchError(e) == [NoResult EXCEPT !.kind = "FetchError", !.err = e]

CurrentTagNotEncountered(n) ==
    [NoResult EXCEPT !.kind = "CurrentTagNotEncountered", !.searched_amount = n]

CurrentTagPatternConflict(tag, pattern) ==
    [NoResult EXCEPT !.kind = "CurrentTagPatternConflict",
                     !.current_tag = tag, !.pattern = pattern]

Init ==
    /\ extractor \in Patterns
    /\ image_tag \in CurrentTags
    /\ source \in Sources
    /\ cursor = 0
    /\ pc = "entry"
    /\ current_version = <<>>
    /\ breaking_update = None
    /\ searched_amount = 0
    /\ result = NoResult
    /\ update_type_calls = {}
    /\ run = 1
    /\ first_result = NoResult
    /\ input = NoInput
    /\ parse_pc = "idle"
    /\ collected = <<>>
    /\ parse_result = NoParseResult

\* Start entering the loop without looking at the current tag's match.
Start_NoConflictCheck ==
    /\ pc = "entry"
    /\ LET v == extract_from(extractor, image_tag) IN
       /\ current_version' = v.val
       /\ breaking_update' = None
       /\ searched_amount' = 0
       /\ pc' = "loop"
       /\ result' = NoResult
    /\ update_type_calls' = {}
    /\ UNCHANGED << extractor, image_tag, source, cursor, run, first_result >>
    /\ UNCHANGED compose_vars

\* Start with a counter that outlives the call.
Start_KeepCount ==
    /\ pc = "entry"
    /\ LET v == extract_from(extractor, image_tag) IN
       IF v.some
       THEN /\ current_version' = v.val
            /\ breaking_update' = None
            /\ pc' = "loop"
            /\ result' = NoResult
       ELSE /\ result' = CurrentTagPatternConflict(image_tag, extractor.source)
            /\ pc' = "done"
            /\ UNCHANGED << current_version, breaking_update >>
    /\ update_type_calls' = {}
    /\ UNCHANGED << extractor, image_tag, source, cursor, searched_amount,
                    run, first_result >>
    /\ UNCHANGED compose_vars

\* Entry of find_update up to the loop: the current tag must match.
Start ==
    /\ pc = "entry"
    /\ LET v == extract_from(extractor, image_tag) IN
       IF v.some
       THEN /\ current_version' = v.val
            /\ breaking_update' = None
            /\ searched_amount' = 0
            /\ pc' = "loop"
            /\ result' = NoResult
       ELSE /\ result' = CurrentTagPatternConflict(image_tag, extractor.source)
            /\ pc' = "done"
            /\ UNCHANGED << current_version, breaking_update, searched_amount >>
    /\ update_type_calls' = {}
    /\ UNCHANGED << extractor, image_tag, source, cursor, run, first_result >>
    /\ UNCHANGED compose_vars

\* The iterator has another item: the loop body runs on it.
HasNext == pc = "loop" /\ cursor < Len(source)

NextItem == source[cursor + 1]

Pulled ==
    /\ cursor' = cursor + 1
    /\ searched_amount' = searched_amount + 1
    /\ UNCHANGED << extractor, image_tag, source, current_version, run,
                    first_result >>
    /\ UNCHANGED compose_vars

\* ForwardFetchError handing out the Breaking tag found so far.
ForwardFetchError_Partial ==
    /\ HasNext
    /\ ~NextItem.ok
    /\ Pulled
    /\ result' = IF breaking_update.some
                 THEN Update(None, breaking_update)
                 ELSE FetchError(NextItem.err)
    /\ pc' = "done"
    /\ UNCHANGED << breaking_update, update_type_calls >>

\* tag_result? on an error item
ForwardFetchError ==
    /\ HasNext
    /\ ~NextItem.ok
    /\ Pulled
    /\ result' = FetchError(NextItem.err)
    /\ pc' = "done"
    /\ UNCHANGED << breaking_update, update_type_calls >>

\* ReachCurrentTag answering as the code after the loop does.
ReachCurrentTag_AsExhausted ==
    /\ HasNext
    /\ NextItem.ok
    /\ NextItem.tag = image_tag
    /\ Pulled
    /\ result' = IF breaking_update.some
                 THEN Update(None, breaking_update)
                 ELSE CurrentTagNotEncountered(searched_amount + 1)
    /\ pc' = "done"
    /\ UNCHANGED << breaking_update, update_type_calls >>

\* &tag_candidate == current_tag
ReachCurrentTag ==
    /\ HasNext
    /\ NextItem.ok
    /\ NextItem.tag = image_tag
    /\ Pulled
    /\ result' = Update(None, breaking_update)
    /\ pc' = "done"
    /\ UNCHANGED << breaking_update, update_type_calls >>

\* extract_from gives no version: next iteration
SkipNoMatch ==
    /\ HasNext
    /\ NextItem.ok
    /\ NextItem.tag # image_tag
    /\ ~extract_from(extractor, NextItem.tag).some
    /\ Pulled
    /\ UNCHANGED << pc, result, breaking_update, update_type_calls >>

\* SkipLesser leaving the loop instead of continuing.
SkipLesser_Break ==
    /\ HasNext
    /\ NextItem.ok
    /\ NextItem.tag # image_tag
    /\ LET v == extract_from(extractor, NextItem.tag) IN
       /\ v.some
       /\ VersionLess(v.val, current_version)
    /\ Pulled
    /\ result' = IF breaking_update.some
                 THEN Update(None, breaking_update)
                 ELSE CurrentTagNotEncountered(searched_amount + 1)
    /\ pc' = "done"
    /\ UNCHANGED << breaking_update, update_type_calls >>

\* version_candidate < current_version: continue
SkipLesser ==
    /\ HasNext
    /\ NextItem.ok
    /\ NextItem.tag # image_tag
    /\ LET v == extract_from(extractor, NextItem.tag) IN
       /\ v.some
       /\ VersionLess(v.val, current_version)
    /\ Pulled
    /\ UNCHANGED << pc, result, breaking_update, update_type_calls >>

\* Classifies handing update_type the degree 0 whatever the pattern.
Classifies_FixedDegree(type) ==
    /\ HasNext
    /\ NextItem.ok
    /\ NextItem.tag # image_tag
    /\ LET v == extract_from(extractor, NextItem.tag) IN
       /\ v.some
       /\ ~VersionLess(v.val, current_version)
       /\ update_type(v.val, current_version, Some(0)) = type

\* The item reaches the match on update_type with this outcome.
Classifies(type) ==
    /\ HasNext
    /\ NextItem.ok
    /\ NextItem.tag # image_tag
    /\ LET v == extract_from(extractor, NextItem.tag) IN
       /\ v.some
       /\ ~VersionLess(v.val, current_version)
       /\ update_type(v.val, current_version, breaking_degree(extractor)) = type

\* RecordBreaking overwriting the candidate.
RecordBreaking_KeepLast ==
    /\ Classifies("Breaking")
    /\ Pulled
    /\ breaking_update' = Some(NextItem.tag)
    /\ update_type_calls' = update_type_calls \cup {cursor + 1}
    /\ UNCHANGED << pc, result >>

\* UpdateType::Breaking
RecordBreaking ==
    /\ Classifies("Breaking")
    /\ Pulled
    /\ breaking_update' = or(breaking_update, Some(NextItem.tag))
    /\ update_type_calls' = update_type_calls \cup {cursor + 1}
    /\ UNCHANGED << pc, result >>

\* ReturnCompatible forgetting the Breaking tag found before.
ReturnCompatible_DropBreaking ==
    /\ Classifies("Compatible")
    /\ Pulled
    /\ result' = Update(Some(NextItem.tag), None)
    /\ pc' = "done"
    /\ update_type_calls' = update_type_calls \cup {cursor + 1}
    /\ UNCHANGED breaking_update

\* UpdateType::Compatible
ReturnCompatible ==
    /\ Classifies("Compatible")
    /\ Pulled
    /\ result' = Update(Some(NextItem.tag), breaking_update)
    /\ pc' = "done"
    /\ update_type_calls' = update_type_calls \cup {cursor + 1}
    /\ UNCHANGED breaking_update

\* Exhausted failing also when a Breaking tag was recorded.
Exhausted_AlwaysFails ==
    /\ pc = "loop"
    /\ cursor = Len(source)
    /\ result' = CurrentTagNotEncountered(searched_amount)
    /\ pc' = "done"
    /\ UNCHANGED << extractor, image_tag, source, cursor, current_version,
                    breaking_update, searched_amount, update_type_calls,
                    run, first_result >>
    /\ UNCHANGED compose_vars

\* The iterator is exhausted: the code after the loop.
Exhausted ==
    /\ pc = "loop"
    /\ cursor = Len(source)
    /\ result' = IF breaking_update.some
                 THEN Update(None, breaking_update)
                 ELSE CurrentTagNotEncountered(searched_amount)
    /\ pc' = "done"
    /\ UNCHANGED << extractor, image_tag, source, cursor, current_version,
                    breaking_update, searched_amount, update_type_calls,
                    run, first_result >>
    /\ UNCHANGED compose_vars

\* The caller searches again, with a fetcher that yields the same sequence.
Invoke ==
    /\ pc = "done"
    /\ run < MaxRuns
    /\ run' = run + 1
    /\ first_result' = IF run = 1 THEN result ELSE first_result
    /\ cursor' = 0
    /\ pc' = "entry"
    /\ result' = NoResult
    /\ UNCHANGED << extractor, image_tag, source, current_version,
                    breaking_update, searched_amount, update_type_calls >>
    /\ UNCHANGED compose_vars

Next ==
    \/ Start
    \/ ForwardFetchError
    \/ ReachCurrentTag
    \/ SkipNoMatch
    \/ SkipLesser
    \/ RecordBreaking
    \/ ReturnCompatible
    \/ Exhausted
    \/ Invoke

Spec == Init /\ [][Next]_vars

---------------------------------------------------------------------------
(* docker_compose::parse *)

InitParse ==
    /\ input \in Inputs
    /\ parse_pc = "entry"
    /\ collected = <<>>
    /\ parse_result = NoParseResult
    /\ extractor = CHOOSE e \in Patterns : e.source = "<!>.<>"
    /\ image_tag = <<"x">>
    /\ source = <<>>
    /\ cursor = 0
    /\ pc = "idle"
    /\ current_version = <<>>
    /\ breaking_update = None
    /\ searched_amount = 0
    /\ result = NoResult
    /\ update_type_calls = {}
    /\ run = 1
    /\ first_result = NoResult

\* parse_yaml(0, input)? fails
LoadFails ==
    /\ parse_pc = "entry"
    /\ ~input.loads
    /\ parse_result' = LoadError
    /\ parse_pc' = "done"
    /\ UNCHANGED << input, collected, find_vars >>

\* root.get_mapping("services") is None and the key is absent
ServicesMissing ==
    /\ parse_pc = "entry"
    /\ input.loads
    /\ ~input.has_services
    /\ parse_result' = MissingField("services")
    /\ parse_pc' = "done"
    /\ UNCHANGED << input, collected, find_vars >>

\* root.get_mapping("services") is None and the key is there
ServicesMalformed ==
    /\ parse_pc = "entry"
    /\ input.loads
    /\ input.has_services
    /\ input.services_kind # "mapping"
    /\ parse_result' = MalformedDockerfile
    /\ parse_pc' = "done"
    /\ UNCHANGED << input, collected, find_vars >>

\* root.get_mapping("services") is a mapping: iterate over it
ServicesFound ==
    /\ parse_pc = "entry"
    /\ input.loads
    /\ input.has_services
    /\ input.services_kind = "mapping"
    /\ parse_pc' = "services"
    /\ collected' = <<>>
    /\ UNCHANGED << input, parse_result, find_vars >>

NextService == input.services[Len(collected) + 1]

\* The closure gives Ok for the next service: collect goes on.
ServiceCollected ==
    /\ parse_pc = "services"
    /\ Len(collected) < Len(input.services)
    /\ LET r == service_entry(NextService.key, NextService.node) IN
       /\ r.ok
       /\ collected' = Append(collected, r.entry)
    /\ UNCHANGED << input, parse_pc, parse_result, find_vars >>

\* The closure gives Err for the next service: collect stops with it.
ServiceFails ==
    /\ parse_pc = "services"
    /\ Len(collected) < Len(input.services)
    /\ LET r == service_entry(NextService.key, NextService.node) IN
       /\ ~r.ok
       /\ parse_result' = r.err
    /\ parse_pc' = "done"
    /\ UNCHANGED << input, collected, find_vars >>

\* The services are exhausted: Ok with the collected entries.
AllCollected ==
    /\ parse_pc = "services"
    /\ Len(collected) = Len(input.services)
    /\ parse_result' = Ok(collected)
    /\ parse_pc' = "done"
    /\ UNCHANGED << input, collected, find_vars >>

NextParse ==
    \/ LoadFails
    \/ ServicesMissing
    \/ ServicesMalformed
    \/ ServicesFound
    \/ ServiceCollected
    \/ ServiceFails
    \/ AllCollected

SpecParse == InitParse /\ [][NextParse]_vars

---------------------------------------------------------------------------
(* What the tag sequence says, independently of the search's variables *)

Matches(tag) == extract_from(extractor, tag).some

VersionOf(tag) == extract_from(extractor, tag).val

CurVer == VersionOf(image_tag)

\* A matching tag whose version is strictly greater than the current one.
IsGreater(tag) == Matches(tag) /\ VersionLess(CurVer, VersionOf(tag))

Classification(tag) ==
    update_type(VersionOf(tag), CurVer, breaking_degree(extractor))

\* An update of the given type: not the current tag string, matching,
\* strictly greater, and classified so.
IsUpdate(item, type) ==
    /\ item.ok
    /\ item.tag # image_tag
    /\ IsGreater(item.tag)
    /\ Classification(item.tag) = type

\* The first Breaking update among the first n items of the source.
FirstBreakingIn(n) ==
    LET hits == {i \in 1..n : IsUpdate(source[i], "Breaking")}
    IN  IF hits = {} THEN None
        ELSE Some(source[CHOOSE i \in hits : \A j \in hits : i <= j].tag)

---------------------------------------------------------------------------
(* Claims *)

\* C1: when the search pulls a tag that is not the current tag string,
\* matches, is strictly greater than the current version and classifies as
\* Compatible, the call returns at once with Update{compatible: that tag,
\* breaking: the first Breaking tag pulled before it, or none}; a call that
\* has returned pulls nothing more, so no later tag replaces the result.
C1_FirstCompatibleWins ==
    [][ /\ (HasNext /\ IsUpdate(NextItem, "Compatible"))
            => /\ pc' = "done"
               /\ cursor' = cursor + 1
               /\ result' = Update(Some(NextItem.tag), FirstBreakingIn(cursor))
        /\ pc = "done" => cursor' <= cursor
        /\ (pc' = "done" /\ result'.kind = "Update" /\ result'.compatible.some)
            => result'.compatible.val = source[cursor'].tag ]_vars

\* C1 witness: compatible and breaking both returned while a later tag of
\* the source has a still greater version than the returned compatible tag.
C1_Witness ==
    /\ pc = "done"
    /\ result.kind = "Update"
    /\ result.compatible.some
    /\ result.breaking.some
    /\ cursor < Len(source)
    /\ source[cursor + 1].ok
    /\ IsUpdate(source[cursor + 1], "Compatible")
    /\ VersionLess(VersionOf(result.compatible.val),
                   VersionOf(source[cursor + 1].tag))

\* C2: when the search pulls a tag equal to the current tag string, the call
\* returns successfully with Update{compatible: none, breaking:
\* breakingCandidate}, also when breakingCandidate is empty; the result is
\* fixed by the items up to the current tag.
C2_CurrentTagTerminates ==
    [][ (HasNext /\ NextItem.ok /\ NextItem.tag = image_tag)
            => /\ pc' = "done"
               /\ cursor' = cursor + 1
               /\ result' = Update(None, breaking_update)
               /\ result' = Update(None, FirstBreakingIn(cursor)) ]_vars

\* C2 witness: the current tag came first, with more tags behind it, and the
\* call succeeded with neither update.
C2_Witness ==
    /\ pc = "done"
    /\ result = Update(None, None)
    /\ cursor >= 1
    /\ source[cursor] = OkItem(image_tag)
    /\ cursor < Len(source)

\* C3: a Breaking tag is recorded only when breakingCandidate is empty, so
\* during a search breakingCandidate, once set, never changes and is the
\* first Breaking tag in source order; a Breaking hit leaves the search in
\* its loop.
C3_FirstBreakingKept ==
    [][ /\ pc = "loop" => breaking_update = FirstBreakingIn(cursor)
        /\ (pc = "loop" /\ breaking_update.some)
            => breaking_update' = breaking_update
        /\ (HasNext /\ IsUpdate(NextItem, "Breaking"))
            => /\ pc' = "loop"
               /\ cursor' = cursor + 1
               /\ result' = result
               /\ breaking_update' = or(breaking_update, Some(NextItem.tag)) ]_vars

\* C3 witness: a second Breaking tag with another version was pulled and
\* the candidate is still the first one, the search still running.
C3_Witness ==
    /\ pc = "loop"
    /\ cursor >= 2
    /\ IsUpdate(source[cursor], "Breaking")
    /\ breaking_update.some
    /\ breaking_update.val # source[cursor].tag
    /\ VersionLess(VersionOf(breaking_update.val), VersionOf(source[cursor].tag))

\* C4: when the iterator is exhausted the call returns Update{compatible:
\* none, breaking: breakingCandidate} if a Breaking tag was recorded, and
\* else fails with CurrentTagNotEncountered{examined}, examined being the
\* number of items pulled, matching or not.
C4_Exhaustion ==
    [][ (pc = "loop" /\ cursor = Len(source))
            => /\ pc' = "done"
               /\ cursor' = cursor
               /\ result' = IF FirstBreakingIn(Len(source)).some
                            THEN Update(None, FirstBreakingIn(Len(source)))
                            ELSE CurrentTagNotEncountered(Len(source)) ]_vars

\* C4 witness: three items examined, one of them not matching the pattern,
\* and the call failed with CurrentTagNotEncountered{3}.
C4_Witness ==
    /\ pc = "done"
    /\ result = CurrentTagNotEncountered(3)
    /\ cursor = 3
    /\ \E i \in 1..3 : source[i].ok /\ ~Matches(source[i].tag)
    /\ \E i \in 1..3 : source[i].ok /\ Matches(source[i].tag)

\* C5: an error item pulled by the search makes the call fail at once with
\* FetchError carrying that error; no Update is returned, whatever
\* breakingCandidate holds.
C5_FetchFailureAborts ==
    [][ (HasNext /\ ~NextItem.ok)
            => /\ pc' = "done"
               /\ cursor' = cursor + 1
               /\ result' = FetchError(NextItem.err)
               /\ ~result'.compatible.some
               /\ ~result'.breaking.some ]_vars

\* C5 witness: the call failed on an error item after a Breaking tag had
\* been recorded.
C5_Witness ==
    /\ pc = "done"
    /\ result.kind = "FetchError"
    /\ breaking_update.some
    /\ cursor >= 2
    /\ result.err = source[cursor].err

\* C6: a pulled tag that is not the current tag string and either does not
\* match the pattern or matches with a version not strictly greater than
\* the current one (lesser, or equal with another string) is skipped:
\* breakingCandidate unchanged, the search neither returns nor fails, and
\* update_type is not invoked for it.
C6_NotGreaterSkipped ==
    [][ (HasNext /\ NextItem.ok /\ NextItem.tag # image_tag
                 /\ ~IsGreater(NextItem.tag))
            => /\ pc' = "loop"
               /\ cursor' = cursor + 1
               /\ result' = result
               /\ breaking_update' = breaking_update
               /\ update_type_calls' = update_type_calls ]_vars

\* C7: when the current tag does not match the pattern the call fails with
\* CurrentTagPatternConflict, carrying the current tag and the pattern, and
\* no item has been pulled from the source.
C7_PatternConflictBeforePull ==
    /\ (pc = "done" /\ ~Matches(image_tag))
        => /\ result = CurrentTagPatternConflict(image_tag, extractor.source)
           /\ cursor = 0
    /\ (pc = "done" /\ Matches(image_tag))
        => result.kind # "CurrentTagPatternConflict"
    /\ pc = "loop" => Matches(image_tag)

\* C7 witness: the conflict was reported although the source starts with
\* the very string of the current tag and holds an error item.
C7_Witness ==
    /\ pc = "done"
    /\ result.kind = "CurrentTagPatternConflict"
    /\ Len(source) >= 2
    /\ source[1] = OkItem(image_tag)
    /\ ~source[2].ok

\* C8: under a pattern without breaking placeholder no Update carries a
\* breaking tag, a strictly greater matching tag pulled by the search is
\* returned as compatible at once, and exhaustion fails with
\* CurrentTagNotEncountered.
C8_NoBreakingDegree ==
    [][ ~breaking_degree(extractor).some
            => /\ ~breaking_update'.some
               /\ ~result'.breaking.some
               /\ (HasNext /\ NextItem.ok /\ NextItem.tag # image_tag
                           /\ IsGreater(NextItem.tag))
                    => /\ pc' = "done"
                       /\ result' = Update(Some(NextItem.tag), None)
               /\ (pc = "loop" /\ cursor = Len(source))
                    => result' = CurrentTagNotEncountered(Len(source)) ]_vars

\* C8 witness: without breaking placeholder, a tag greater in its first
\* component was returned as compatible after a skipped tag.
C8_Witness ==
    /\ ~breaking_degree(extractor).some
    /\ pc = "done"
    /\ result.kind = "Update"
    /\ result.compatible.some
    /\ cursor >= 2
    /\ VersionOf(result.compatible.val)[1] > CurVer[1]

\* The search stops on an error item, on the current tag string and on a
\* tag it classifies Compatible.
Stops(item) ==
    \/ ~item.ok
    \/ item.tag = image_tag
    \/ /\ Matches(item.tag)
       /\ ~VersionLess(VersionOf(item.tag), CurVer)
       /\ Classification(item.tag) = "Compatible"

StopPosition ==
    LET stops == {i \in 1..Len(source) : Stops(source[i])}
    IN  IF stops = {} THEN Len(source)
        ELSE CHOOSE i \in stops : \A j \in stops : i <= j

C10_Deterministic ==
    (run >= 2 /\ pc = "done") => result = first_result

\* C10 witness: the second call failed with CurrentTagNotEncountered after
\* examining items.
C10_Witness ==
    /\ run = 2
    /\ pc = "done"
    /\ result.kind = "CurrentTagNotEncountered"
    /\ result.searched_amount >= 2

---------------------------------------------------------------------------
(* What a compose document says about its services *)

HasScalarBuild(node) == node.build.kind = "scalar"

HasScalarImage(node) == node.image.kind = "scalar"

ImageMatches(node) == captures(node.image.value).some

\* The positions of the services for which the claim announces a failure,
\* and the failure it announces.
ClaimedFailing ==
    { i \in 1..Len(input.services) :
        LET node == input.services[i].node IN
        /\ ~HasScalarBuild(node)
        /\ HasScalarImage(node) => ~ImageMatches(node) }

ClaimedFailure(i) ==
    LET svc == input.services[i] IN
    IF HasScalarImage(svc.node) THEN InvalidImage(svc.node.image.value)
    ELSE UnsupportedBuildContext(svc.key)

\* The failure of a service, one that is not a mapping being malformed.
ServiceFailure(i) ==
    LET svc == input.services[i] IN
    IF svc.node.kind # "mapping" THEN MalformedDockerfile
    ELSE ClaimedFailure(i)

\* One entry per service, in document order, a scalar build first.
ListsEveryService(list) ==
    /\ Len(list) = Len(input.services)
    /\ \A i \in 1..Len(list) :
        LET svc == input.services[i] IN
        /\ list[i][1] = svc.key
        /\ IF HasScalarBuild(svc.node)
           THEN list[i][2] = Folder(svc.node.build.value)
           ELSE /\ list[i][2].kind = "Image"
                /\ HasScalarImage(svc.node)
                /\ ImageMatches(svc.node)

RootFailure ==
    /\ ~input.has_services => parse_result = MissingField("services")
    /\ (input.has_services /\ input.services_kind # "mapping")
        => parse_result = MalformedDockerfile

\* C11 as stated: on a loaded document parse fails with MissingField or
\* MalformedDockerfile for the root, with UnsupportedBuildContext{service}
\* for a service with neither a scalar build nor a scalar image, with
\* InvalidImage(raw) for a scalar image that does not match, the error being
\* that of some such service and carrying no list; otherwise it returns one
\* entry per service in document order, a scalar build before image.
C11_AsClaimed ==
    (parse_pc = "done" /\ input.loads)
        => /\ RootFailure
           /\ input.services_kind = "mapping"
                => IF ClaimedFailing = {}
                   THEN /\ parse_result.kind = "Ok"
                        /\ ListsEveryService(parse_result.list)
                   ELSE /\ parse_result.list = <<>>
                        /\ \E i \in ClaimedFailing :
                               parse_result = ClaimedFailure(i)

\* C11 amended: as stated, except that a service whose node is not a
\* mapping fails with MalformedDockerfile, UnsupportedBuildContext being
\* for a service mapping with neither a scalar build nor a scalar image;
\* the error is that of the first failing service in document order.
C11_ParseAllOrNothing ==
    (parse_pc = "done" /\ input.loads)
        => /\ RootFailure
           /\ input.services_kind = "mapping"
                => IF ClaimedFailing = {}
                   THEN /\ parse_result.kind = "Ok"
                        /\ ListsEveryService(parse_result.list)
                   ELSE /\ parse_result.list = <<>>
                        /\ parse_result.kind # "Ok"
                        /\ parse_result = ServiceFailure(
                               CHOOSE i \in ClaimedFailing :
                                   \A j \in ClaimedFailing : i <= j)

\* C11 witness: the first service gave an entry, the second is not a
\* mapping, and parse returned MalformedDockerfile without any list.
C11_Witness ==
    /\ parse_pc = "done"
    /\ input.loads
    /\ Len(input.services) = 2
    /\ Len(collected) = 1
    /\ input.services[2].node.kind # "mapping"
    /\ parse_result = MalformedDockerfile

\* The positions at which the search has pulled the tag.
PulledAt(tag) == {i \in 1..cursor : source[i] = OkItem(tag)}

\* C12: in every Update find_update returns, each present tag was pulled,
\* matches the pattern and is not the current tag string; a present
\* compatible tag has a version strictly greater than the current one; and
\* when both are present the breaking tag is another tag than the
\* compatible one and was pulled strictly before it.
C12_UpdateWellFormed ==
    (pc = "done" /\ result.kind = "Update")
        => /\ \A o \in {result.compatible, result.breaking} :
                o.some => /\ PulledAt(o.val) # {}
                          /\ Matches(o.val)
                          /\ o.val # image_tag
           /\ result.compatible.some
                => VersionLess(CurVer, VersionOf(result.compatible.val))
           /\ (result.compatible.some /\ result.breaking.some)
                => /\ result.breaking.val # result.compatible.val
                   /\ \E i \in PulledAt(result.breaking.val) :
                      \E j \in PulledAt(result.compatible.val) : i < j

====
